---- MODULE Spec2Model ----
(***************************************************************************)
(* A model of the pysource glue layer: the gradient dispatcher J_adjoint   *)
(* and its three strategies (interface.py), the geometry builder           *)
(* src_rec / geom_expr (geom_utils.py) and the small utilities             *)
(* compute_optalpha, set_device_ids and base_kwargs (utils.py).            *)
(*                                                                         *)
(* An absent Python argument (None) is the empty set and a present one the *)
(* singleton of its value.  Data buffers are sequences of integers and     *)
(* buffer arithmetic is element by element, as numpy's is.                 *)
(***************************************************************************)
EXTENDS Integers, Sequences, FiniteSets, TLC

\* ------------------------------------------------------------------ bounds
\* number of samples of a receiver data buffer
NRec == 1
\* receiver samples range over 0..MaxData
MaxData == 1
\* longest wavelet (number of time samples nt)
MaxNT == 4
\* largest memory budget maxmem, in MB
MaxMem == 2
\* longest frequency list
MaxFreq == 1

\* ------------------------------------------------------- program constants
\* space_order=8, the default of every wrapper
DefaultSpaceOrder == 8
\* maxmem is given in MB: maxmem * 10**6 bytes
BytesPerMB == 1000000

None == {}
Some(v) == {v}
Get(o) == CHOOSE v \in o : TRUE

DataVals == 0..MaxData
Buf == [1..NRec -> DataVals]
Zeros == [i \in 1..NRec |-> 0]
\* a[:] - b[:]
Sub(a, b) == [i \in DOMAIN a |-> a[i] - b[i]]

SpaceOrders == {4, DefaultSpaceOrder}
NTs == 3..MaxNT
MaxMems == {None} \cup {Some(m) : m \in 1..MaxMem}
NChecks == {None, Some(5)}
CpSizes == {150000}
ItemSizes == {4, 8}

VARIABLES
  \* ---- gradient strategies (interface.py)
  pc,            \* "idle", "cp_fwd", "cp_res", "cp_rev", "done"
  viaJ,          \* the running call was made through J_adjoint
  args,          \* the arguments of the running call
  ran,           \* the strategies run by the call, in order
  recin,         \* the caller's recin buffer
  recinWritten,  \* the call assigned to recin[:]
  residual,      \* the residual handed to the adjoint/gradient computation
  so_used,       \* the space_order the strategy was given
  cp,            \* the state of J_adjoint_checkpointing: rec, rec_g, Revolver
  \* ---- utilities (utils.py)
  DEVICE,        \* DEVICE["id"], the process-wide device slot
  platform,      \* configuration['platform'].name
  lastSet,       \* the id given to the most recent set_device_ids call
  kwargs,        \* what the last base_kwargs call returned, as (key, value) pairs
  lastCall,      \* the utility called last: "set_device_ids" or "base_kwargs"
  alphaIn,       \* the arguments of compute_optalpha
  alphaOut,      \* what compute_optalpha returned
  \* ---- geometry builder (geom_utils.py)
  gin,           \* the arguments of src_rec / geom_expr
  gout,          \* what the call returned or raised
  \* ---- vec / tensor (utils.py)
  tIn,           \* the object the reshapes start from
  tCur,          \* the result of the reshapes applied so far
  tOps,          \* the reshapes applied so far, in order
  \* ---- C_Matrix (utils.py)
  cmIn,          \* the parameterization, the dimension and the model fields
  cmOut,         \* the matrix C_Matrix returned, with its attributes
  \* ---- fields_kwargs (utils.py)
  fkIn,          \* the argument list
  fkOut,         \* the mapping returned
  \* ---- weight_fun (utils.py)
  wIn,           \* the descriptor, the model geometry, the source and a grid point
  wOut,          \* the weight returned, at that grid point
  \* ---- wavefield-as-source wrappers (interface.py)
  wfIn,          \* the wrapper called and the wavefield handed to it
  wfSrc,         \* the source field wf_src the wrapper built
  heap           \* the storage blocks: block id -> values

gvars == <<pc, viaJ, args, ran, recin, recinWritten, residual, so_used, cp>>
uvars == <<DEVICE, platform, lastSet, kwargs, lastCall>>
avars == <<alphaIn, alphaOut>>
tvars == <<tIn, tCur, tOps>>
cvars == <<cmIn, cmOut>>
fvars == <<fkIn, fkOut>>
wvars == <<wIn, wOut>>
svars == <<wfIn, wfSrc, heap>>
nvars == <<tvars, cvars, fvars, wvars, svars>>
others == <<uvars, avars, gin, gout, nvars>>


\* ----------------------------------------------------------- J_adjoint
\* The strategy J_adjoint selects.
\* variant: the frequency list tested before the checkpointing flag
J_adjoint_select_freqfirst(checkpointing, nf) ==
  IF nf > 0 THEN "freq"
  ELSE IF checkpointing THEN "checkpointing"
  ELSE "standard"

J_adjoint_select(checkpointing, nf) ==
  IF checkpointing THEN "checkpointing"
  ELSE IF nf > 0 THEN "freq"
  ELSE "standard"

\* The space_order J_adjoint hands to the strategy it selects.
J_adjoint_space_order(strategy, space_order) ==
  IF strategy = "checkpointing" THEN 8 ELSE space_order

\* J_adjoint always calls the strategy with is_residual=True.
J_adjoint_is_residual == TRUE

\* recin after "if not is_residual: recin[:] = rec.data[:] - recin[:]"
\* variant: the is_residual test inverted
ResidualInPlace_inverted(is_residual, rec_data, rin) ==
  IF is_residual THEN Sub(rec_data, rin) ELSE rin

ResidualInPlace(is_residual, rec_data, rin) ==
  IF ~is_residual THEN Sub(rec_data, rin) ELSE rin

\* rec.data after the residual step of J_adjoint_checkpointing
CheckpointResidual(is_residual, rec_data, rin) ==
  IF is_residual = TRUE THEN rin ELSE Sub(rec_data, rin)

\* n_checkpoints as handed to the Revolver
\* variant: the element byte width left out of memsize
CheckpointCount_noitemsize(maxmem, n_checkpoints, cp_size, itemsize) ==
  IF maxmem # None
  THEN Some((Get(maxmem) * BytesPerMB) \div cp_size)
  ELSE n_checkpoints

CheckpointCount(maxmem, n_checkpoints, cp_size, itemsize) ==
  IF maxmem # None
  THEN LET memsize == cp_size * itemsize
       IN  Some((Get(maxmem) * BytesPerMB) \div memsize)
  ELSE n_checkpoints

\* The order of the steps of J_adjoint_checkpointing after its set-up.
\* variant: the residual written after the reverse sweep
CheckpointNext_residual_late(phase) ==
  CASE phase = "cp_setup" -> "cp_fwd"
    [] phase = "cp_fwd"   -> "cp_rev"
    [] phase = "cp_rev"   -> "cp_res"
    [] phase = "cp_res"   -> "done"

CheckpointNext(phase) ==
  CASE phase = "cp_setup" -> "cp_fwd"
    [] phase = "cp_fwd"   -> "cp_res"
    [] phase = "cp_res"   -> "cp_rev"
    [] phase = "cp_rev"   -> "done"

NoCp == [rec |-> Zeros, rec_g |-> Zeros, n_checkpoints |-> None,
         nsteps |-> 0, tfwd |-> 0, trev |-> 0, events |-> <<>>]

NoArgs == [is_residual |-> TRUE, sim |-> Zeros, recin0 |-> Zeros,
           checkpointing |-> FALSE, nfreq |-> 0, space_order |-> DefaultSpaceOrder,
           maxmem |-> None, n_checkpoints |-> None, cp_size |-> 0,
           itemsize |-> 0, nt |-> 0]

Callable == pc = "idle"

\* J_adjoint_standard and J_adjoint_freq: forward, residual in place, gradient.
RunTimeDomain(name, a, via, so) ==
  LET r == ResidualInPlace(a.is_residual, a.sim, a.recin0) IN
  /\ pc' = "done"
  /\ viaJ' = via
  /\ args' = a
  /\ ran' = <<name>>
  /\ recin' = r
  /\ recinWritten' = ~a.is_residual
  /\ residual' = Some(r)
  /\ so_used' = so
  /\ cp' = NoCp
  /\ UNCHANGED others

\* J_adjoint_checkpointing up to the construction of the Revolver.
StartCheckpointing(a, via, so) ==
  /\ pc' = CheckpointNext("cp_setup")
  /\ viaJ' = via
  /\ args' = a
  /\ ran' = <<"checkpointing">>
  /\ recin' = a.recin0
  /\ recinWritten' = FALSE
  /\ residual' = None
  /\ so_used' = so
  /\ cp' = [rec |-> Zeros, rec_g |-> Zeros,
            n_checkpoints |-> CheckpointCount(a.maxmem, a.n_checkpoints,
                                              a.cp_size, a.itemsize),
            nsteps |-> a.nt - 2, tfwd |-> 0, trev |-> 0, events |-> <<>>]
  /\ UNCHANGED others

\* The arguments a caller can give; forward() simulates the data sim.
DataArgs(isres) ==
  {[NoArgs EXCEPT !.is_residual = isres, !.sim = s, !.recin0 = r,
                  !.space_order = so] :
     s \in Buf, r \in Buf, so \in SpaceOrders}

CpArgs(isres) ==
  {[a EXCEPT !.checkpointing = TRUE, !.maxmem = mm, !.n_checkpoints = nc,
             !.cp_size = sz, !.itemsize = it, !.nt = nt] :
     a \in DataArgs(isres), mm \in MaxMems, nc \in NChecks,
     sz \in CpSizes, it \in ItemSizes, nt \in NTs}

Call_J_adjoint ==
  /\ Callable
  /\ \E ck \in BOOLEAN, nf \in 0..MaxFreq :
       LET strategy == J_adjoint_select(ck, nf)
           pool == IF ck THEN CpArgs(J_adjoint_is_residual)
                   ELSE DataArgs(J_adjoint_is_residual)
       IN \E a0 \in pool :
            LET a == [a0 EXCEPT !.checkpointing = ck, !.nfreq = nf]
                so == J_adjoint_space_order(strategy, a.space_order)
            IN CASE strategy = "checkpointing" -> StartCheckpointing(a, TRUE, so)
                 [] strategy = "freq" -> RunTimeDomain("freq", a, TRUE, so)
                 [] strategy = "standard" -> RunTimeDomain("standard", a, TRUE, so)

Call_J_adjoint_standard ==
  /\ Callable
  /\ \E isres \in BOOLEAN : \E a \in DataArgs(isres) :
       RunTimeDomain("standard", a, FALSE, a.space_order)

Call_J_adjoint_freq ==
  /\ Callable
  /\ \E isres \in BOOLEAN, nf \in 1..MaxFreq : \E a0 \in DataArgs(isres) :
       LET a == [a0 EXCEPT !.nfreq = nf]
       IN RunTimeDomain("freq", a, FALSE, a.space_order)

Call_J_adjoint_checkpointing ==
  /\ Callable
  /\ \E isres \in BOOLEAN : \E a \in CpArgs(isres) :
       StartCheckpointing(a, FALSE, a.space_order)

Log(e) == [cp EXCEPT !.events = Append(@, e)]

\* wrp.apply_forward(): the forward operator advances nt-2 steps and records
\* the simulated data in rec_g, the receiver bound to 'rcv<u>'.
ApplyForwardStep ==
  /\ pc = "cp_fwd"
  /\ cp.tfwd < cp.nsteps
  /\ cp' = [Log("fwd") EXCEPT !.tfwd = @ + 1]
  /\ UNCHANGED <<pc, viaJ, args, ran, recin, recinWritten, residual, so_used, others>>

ApplyForwardEnd ==
  /\ pc = "cp_fwd"
  /\ cp.tfwd = cp.nsteps
  /\ cp' = [Log("fwd_end") EXCEPT !.rec_g = args.sim]
  /\ pc' = CheckpointNext("cp_fwd")
  /\ UNCHANGED <<viaJ, args, ran, recin, recinWritten, residual, so_used, others>>

\* the residual written into rec, the receiver bound to 'src<v>'
WriteResidual ==
  /\ pc = "cp_res"
  /\ cp' = [Log("res") EXCEPT
              !.rec = CheckpointResidual(args.is_residual, cp.rec, recin)]
  /\ pc' = CheckpointNext("cp_res")
  /\ UNCHANGED <<viaJ, args, ran, recin, recinWritten, residual, so_used, others>>

\* wrp.apply_reverse(): the gradient operator steps back, reading rec
ApplyReverseStep ==
  /\ pc = "cp_rev"
  /\ cp.trev < cp.nsteps
  /\ cp' = [Log("rev") EXCEPT !.trev = @ + 1]
  /\ residual' = Some(cp.rec)
  /\ UNCHANGED <<pc, viaJ, args, ran, recin, recinWritten, so_used, others>>

ApplyReverseEnd ==
  /\ pc = "cp_rev"
  /\ cp.trev = cp.nsteps
  /\ cp' = Log("rev_end")
  /\ pc' = CheckpointNext("cp_rev")
  /\ UNCHANGED <<viaJ, args, ran, recin, recinWritten, residual, so_used, others>>

\* The call returns; its frame is gone and the next call starts afresh.
Return ==
  /\ pc = "done"
  /\ pc' = "idle"
  /\ viaJ' = FALSE
  /\ args' = NoArgs
  /\ ran' = <<>>
  /\ recin' = Zeros
  /\ recinWritten' = FALSE
  /\ residual' = None
  /\ so_used' = DefaultSpaceOrder
  /\ cp' = NoCp
  /\ UNCHANGED others

InitGrad ==
  /\ pc = "idle"
  /\ viaJ = FALSE
  /\ args = NoArgs
  /\ ran = <<>>
  /\ recin = Zeros
  /\ recinWritten = FALSE
  /\ residual = None
  /\ so_used = DefaultSpaceOrder
  /\ cp = NoCp

NextGrad ==
  \/ Return
  \/ Call_J_adjoint
  \/ Call_J_adjoint_standard
  \/ Call_J_adjoint_freq
  \/ Call_J_adjoint_checkpointing
  \/ ApplyForwardStep
  \/ ApplyForwardEnd
  \/ WriteResidual
  \/ ApplyReverseStep
  \/ ApplyReverseEnd

\* ------------------------------------------------------------ utilities
\* largest norm_r tried
MaxNorm == 5
\* largest norm_Fty tried
MaxFty == 10
\* largest noise level epsilon tried
MaxEps == 2
\* largest device id tried
MaxDev == 3
\* largest time step tried
MaxDt == 3

\* A Python number is a fraction num/den; a true division by zero raises.
Number(n) == [raised |-> FALSE, num |-> n, den |-> 1]
TrueDiv(n, d) ==
  IF d = 0 THEN [raised |-> TRUE, num |-> 0, den |-> 1]
  ELSE [raised |-> FALSE, num |-> n, den |-> d]

\* variant: "or" in place of "and" in the guard
compute_optalpha_or(norm_r, norm_Fty, epsilon, comp_alpha) ==
  IF comp_alpha
  THEN IF norm_r > epsilon \/ norm_Fty > 0
       THEN TrueDiv(norm_r * (norm_r - epsilon), norm_Fty)
       ELSE Number(0)
  ELSE Number(1)

compute_optalpha(norm_r, norm_Fty, epsilon, comp_alpha) ==
  IF comp_alpha
  THEN IF norm_r > epsilon /\ norm_Fty > 0
       THEN TrueDiv(norm_r * (norm_r - epsilon), norm_Fty)
       ELSE Number(0)
  ELSE Number(1)

AlphaInputs ==
  [norm_r : -1..MaxNorm, norm_Fty : -1..MaxFty, epsilon : 0..MaxEps,
   comp_alpha : BOOLEAN]

NotCalled == [raised |-> FALSE, num |-> 0, den |-> 0]

Call_compute_optalpha ==
  /\ alphaOut = NotCalled
  /\ alphaOut' = compute_optalpha(alphaIn.norm_r, alphaIn.norm_Fty,
                                  alphaIn.epsilon, alphaIn.comp_alpha)
  /\ UNCHANGED <<alphaIn, gvars, uvars, gin, gout, nvars>>

\* DEVICE = {"id": -1}
DefaultDevice == -1
Platforms == {"cpu64", "nvidiaX", "amdgpuX"}

\* DEVICE["id"] after set_device_ids(devid)
set_device_ids(devid) == devid

\* variant: the platform test of opt_op, ['nvidiaX', 'amdgpuX']
base_kwargs_anygpu(dt) ==
  IF platform \in {"nvidiaX", "amdgpuX"}
  THEN {<<"dt", dt>>, <<"deviceid", DEVICE>>}
  ELSE {<<"dt", dt>>}

\* the keyword arguments base_kwargs(dt) returns
base_kwargs(dt) ==
  IF platform = "nvidiaX"
  THEN {<<"dt", dt>>, <<"deviceid", DEVICE>>}
  ELSE {<<"dt", dt>>}

Call_set_device_ids ==
  \E devid \in 0..MaxDev :
    /\ DEVICE' = set_device_ids(devid)
    /\ lastSet' = devid
    /\ lastCall' = "set_device_ids"
    /\ UNCHANGED <<platform, kwargs, avars, gvars, gin, gout, nvars>>

Call_base_kwargs ==
  \E dt \in 1..MaxDt :
    /\ kwargs' = base_kwargs(dt)
    /\ lastCall' = "base_kwargs"
    /\ UNCHANGED <<DEVICE, platform, lastSet, avars, gvars, gin, gout, nvars>>

InitDevice ==
  /\ DEVICE = DefaultDevice
  /\ lastSet = -1
  /\ kwargs = {}
  /\ lastCall = "none"

InitAlphaIdle ==
  /\ alphaIn = [norm_r |-> 0, norm_Fty |-> 0, epsilon |-> 0, comp_alpha |-> FALSE]
  /\ alphaOut = NotCalled

\* ------------------------------------------------------ geometry builder
\* longest wavelet / largest nt handed to the geometry builder
MaxWav == 2

Media == {"acoustic", "tti", "elastic"}
is_elastic(medium) == medium = "elastic"
is_tti(medium) == medium = "tti"

\* The wavelet argument: absent, an array of samples, or a PointSource object.
NoWavelet == [kind |-> "None", id |-> "", name |-> "", ntime |-> None,
              coordinates |-> None, data |-> <<>>]
Samples(n) == [i \in 1..n |-> i]
ArrayWavelet(n) == [NoWavelet EXCEPT !.kind = "array", !.data = Samples(n)]
SourceWavelet(n) ==
  [kind |-> "PointSource", id |-> "caller", name |-> "q", ntime |-> Some(n),
   coordinates |-> Some("q_coords"), data |-> Samples(n)]
Wavelets ==
  {NoWavelet} \cup {ArrayWavelet(n) : n \in 1..MaxWav}
              \cup {SourceWavelet(n) : n \in 1..MaxWav}

GeomInputs ==
  [medium : Media, dim : {2, 3},
   src_coords : {None, Some("src_coords")},
   rec_coords : {None, Some("rec_coords")},
   recv_coords : {None, Some("recv_coords")},
   wavelet : Wavelets, fw : BOOLEAN,
   nt : {None} \cup {Some(n) : n \in 0..MaxWav}]

\* the name of as_tuple(u)[1][0] (elastic) or of as_tuple(u)[0]
namef(medium) == IF is_elastic(medium) THEN "tau_xx" ELSE "u"

\* the diagonal of the stress tensor u[1]
TauDiagonal(dim) ==
  IF dim = 3 THEN <<"tau_xx", "tau_yy", "tau_zz">> ELSE <<"tau_xx", "tau_zz">>

\* a sparse point set allocated by PointSource(...) or Receiver(...): zero data
NewPoints(kind, name, ntime, coords) ==
  [kind |-> kind, id |-> "new", name |-> name, ntime |-> ntime,
   coordinates |-> coords,
   data |-> IF ntime = None THEN <<>> ELSE [i \in 1..Get(ntime) |-> 0]]

Raised(e) == [status |-> e, src |-> None, rcv |-> None, eqs |-> None]

\* variant: the wavelet's length read first, nt only when it is 0
ResolveNt_wavelet_first(nt, wavelet) ==
  IF wavelet.kind = "None" THEN None
  ELSE IF Len(wavelet.data) # 0 THEN Some(Len(wavelet.data))
  ELSE nt

\* nt or wavelet.shape[0]
ResolveNt(nt, wavelet) ==
  IF nt # None /\ Get(nt) # 0 THEN nt
  ELSE IF wavelet.kind = "None" THEN None
  ELSE Some(Len(wavelet.data))

\* src.data[:] = wavelet[:] if wavelet is not None else 0.
FillSource(src, wavelet) ==
  IF wavelet.kind = "None" THEN Some(src)
  ELSE IF Len(wavelet.data) = Len(src.data)
       THEN Some([src EXCEPT !.data = wavelet.data])
  ELSE IF Len(wavelet.data) = 1
       THEN Some([src EXCEPT !.data = [i \in 1..Len(src.data) |-> wavelet.data[1]]])
  ELSE None

\* variant: no isinstance(wavelet, PointSource) test
src_rec_rewrap(medium, src_coords, rec_coords, wavelet, nt0) ==
  LET nt == ResolveNt(nt0, wavelet)
      nm == namef(medium)
      fresh == NewPoints("PointSource", "src" \o nm, nt, src_coords)
      filled == IF src_coords # None THEN FillSource(fresh, wavelet) ELSE None
      rcv == IF rec_coords # None
             THEN Some(NewPoints("Receiver", "rcv" \o nm, nt, rec_coords))
             ELSE None
  IN IF nt = None THEN Raised("AttributeError")
     ELSE IF src_coords # None /\ filled = None THEN Raised("ValueError")
     ELSE [status |-> "ok", src |-> filled, rcv |-> rcv, eqs |-> None]

\* src_rec(model, u, src_coords, rec_coords, wavelet, nt): (src, rcv) or an error
src_rec(medium, src_coords, rec_coords, wavelet, nt0) ==
  LET nt == ResolveNt(nt0, wavelet)
      nm == namef(medium)
      fresh == NewPoints("PointSource", "src" \o nm, nt, src_coords)
      filled == IF src_coords # None /\ wavelet.kind # "PointSource"
                THEN FillSource(fresh, wavelet) ELSE None
      src == IF src_coords # None
             THEN IF wavelet.kind = "PointSource" THEN Some(wavelet) ELSE filled
             ELSE None
      rcv == IF rec_coords # None
             THEN Some(NewPoints("Receiver", "rcv" \o nm, nt, rec_coords))
             ELSE None
  IN IF nt = None THEN Raised("AttributeError")
     ELSE IF src_coords # None /\ src = None THEN Raised("ValueError")
     ELSE [status |-> "ok", src |-> src, rcv |-> rcv, eqs |-> None]

\* One term of the equation list: what src.inject(field, expr) or
\* rcv.interpolate(expr) contributes.
Inject(point, field, expr) ==
  [kind |-> "inject", point |-> point.name, field |-> field, expr |-> expr]
Interpolate(point, expr) ==
  [kind |-> "interp", point |-> point, field |-> "", expr |-> expr]

\* variant: the fw flag ignored
Injection_ignores_fw(g, src) ==
  IF is_elastic(g.medium)
  THEN [i \in 1..g.dim |-> Inject(src, TauDiagonal(g.dim)[i] \o ".forward", "src*dt")]
  ELSE <<Inject(src, "u.forward", "src*dt**2/m")>>

\* variant: the elastic source injected into the first diagonal entry only
Injection_first_only(g, src) ==
  IF is_elastic(g.medium)
  THEN <<Inject(src, TauDiagonal(g.dim)[1] \o ".forward", "src*dt")>>
  ELSE <<Inject(src, IF g.fw THEN "u.forward" ELSE "u.backward", "src*dt**2/m")>>

\* the injection terms of geom_expr
Injection(g, src) ==
  IF is_elastic(g.medium)
  THEN [i \in 1..g.dim |-> Inject(src, TauDiagonal(g.dim)[i] \o ".forward", "src*dt")]
  ELSE <<Inject(src, IF g.fw THEN "u.forward" ELSE "u.backward", "src*dt**2/m")>>

\* the interpolation terms of geom_expr on an elastic model
ElasticInterpolation(g, rcv) ==
  <<Interpolate("rec_vx", "v[0]"), Interpolate("rec_vz", "v[1]")>>
  \o (IF g.dim = 3 THEN <<Interpolate("rec_vy", "v[2]")>> ELSE <<>>)
  \o <<Interpolate(rcv.name, "trace(tau)")>>

\* variant: no test of recv_coords
geom_expr_nocheck(g) ==
  LET sr == src_rec(g.medium, g.src_coords, g.rec_coords, g.wavelet, g.nt)
      inj == IF sr.src # None THEN Injection(g, Get(sr.src)) ELSE <<>>
  IN IF sr.status # "ok" THEN sr
     ELSE IF sr.rcv = None THEN [sr EXCEPT !.eqs = Some(inj)]
     ELSE IF is_elastic(g.medium)
          THEN [sr EXCEPT !.eqs = Some(inj \o ElasticInterpolation(g, Get(sr.rcv)))]
     ELSE [sr EXCEPT !.eqs = Some(inj \o
             <<Interpolate(Get(sr.rcv).name, IF is_tti(g.medium) THEN "u[0]" ELSE "u")>>)]

\* geom_expr(model, u, src_coords, rec_coords, wavelet, fw, nt, recv_coords):
\* the equation list, or an error
geom_expr(g) ==
  LET sr == src_rec(g.medium, g.src_coords, g.rec_coords, g.wavelet, g.nt)
      inj == IF sr.src # None THEN Injection(g, Get(sr.src)) ELSE <<>>
  IN IF sr.status # "ok" THEN sr
     ELSE IF sr.rcv = None THEN [sr EXCEPT !.eqs = Some(inj)]
     ELSE IF is_elastic(g.medium)
          THEN IF g.recv_coords = None THEN Raised("Exception")
               ELSE [sr EXCEPT !.eqs = Some(inj \o ElasticInterpolation(g, Get(sr.rcv)))]
     ELSE [sr EXCEPT !.eqs = Some(inj \o
             <<Interpolate(Get(sr.rcv).name, IF is_tti(g.medium) THEN "u[0]" ELSE "u")>>)]

NoCall == [fn |-> "none", status |-> "none", src |-> None, rcv |-> None, eqs |-> None]
Called(fn, r) ==
  [fn |-> fn, status |-> r.status, src |-> r.src, rcv |-> r.rcv, eqs |-> r.eqs]

Call_src_rec ==
  /\ gout = NoCall
  /\ gout' = Called("src_rec", src_rec(gin.medium, gin.src_coords, gin.rec_coords,
                                       gin.wavelet, gin.nt))
  /\ UNCHANGED <<gin, gvars, uvars, avars, nvars>>

Call_geom_expr ==
  /\ gout = NoCall
  /\ gout' = Called("geom_expr", geom_expr(gin))
  /\ UNCHANGED <<gin, gvars, uvars, avars, nvars>>

InitGeomIdle ==
  /\ gin = [medium |-> "acoustic", dim |-> 2, src_coords |-> None,
            rec_coords |-> None, recv_coords |-> None, wavelet |-> NoWavelet,
            fw |-> TRUE, nt |-> None]
  /\ gout = NoCall

\* ---------------------------------------------------------- vec / tensor
\* tensor components range over 0..MaxComp
MaxComp == 1

CompVals == 0..MaxComp

\* A tensor-family object: its valence flag, the number of space dimensions,
\* its shape and its components, row by row.
SquareTensors ==
  UNION {[is_TensorValued : {TRUE}, ndim : {n}, rows : {n}, cols : {n},
          comp : [1..(n * n) -> CompVals]] : n \in {2, 3}}
VoigtVectors ==
  UNION {[is_TensorValued : {TRUE}, ndim : {n}, rows : {3 * n - 3}, cols : {1},
          comp : [1..(3 * n - 3) -> CompVals]] : n \in {2, 3}}
VectorFields ==
  UNION {[is_TensorValued : {FALSE}, ndim : {n}, rows : {n}, cols : {1},
          comp : [1..n -> CompVals]] : n \in {2, 3}}
TensorInputs == SquareTensors \cup VoigtVectors \cup VectorFields

\* self[i, j] and self[k], indices from 0; self[-1] is the last component
At2(self, i, j) == self.comp[i * self.cols + j + 1]
At1(self, k) == IF k < 0 THEN self.comp[Len(self.comp) + 1 + k] ELSE self.comp[k + 1]

ReshapeError(e, self) == [status |-> e, obj |-> self]
Reshaped(obj) == [status |-> "ok", obj |-> obj]

\* variant: the shear components taken in row order
VoigtOrder_roworder(ndim) ==
  IF ndim = 3
  THEN <<(<<0, 0>>), (<<1, 1>>), (<<2, 2>>), (<<0, 1>>), (<<0, 2>>), (<<1, 2>>)>>
  ELSE <<(<<0, 0>>), (<<1, 1>>), (<<0, 1>>)>>

VoigtOrder(ndim) ==
  IF ndim = 3
  THEN <<(<<0, 0>>), (<<1, 1>>), (<<2, 2>>), (<<1, 2>>), (<<0, 2>>), (<<0, 1>>)>>
  ELSE <<(<<0, 0>>), (<<1, 1>>), (<<0, 1>>)>>

\* vec(self): the square tensor flattened to its Voigt vector
vec(self) ==
  IF ~self.is_TensorValued THEN ReshapeError("TypeError", self)
  ELSE IF self.rows # self.cols THEN ReshapeError("Exception", self)
  ELSE LET order == VoigtOrder(self.ndim)
       IN Reshaped([is_TensorValued |-> TRUE, ndim |-> self.ndim,
                    rows |-> Len(order), cols |-> 1,
                    comp |-> [k \in 1..Len(order) |->
                                At2(self, order[k][1], order[k][2])]])

\* the entry M[i, j] that tensor(self) assigns, indices from 0
TensorEntry(self, i, j) ==
  IF i = j THEN At1(self, i)
  ELSE IF self.ndim = 3 /\ {i, j} = {1, 2} THEN At1(self, 3)
  ELSE IF self.ndim = 3 /\ {i, j} = {0, 2} THEN At1(self, 4)
  ELSE At1(self, -1)

\* tensor(self): the Voigt vector reshaped to its square tensor
tensor(self) ==
  IF ~self.is_TensorValued THEN ReshapeError("TypeError", self)
  ELSE IF self.rows = self.cols THEN ReshapeError("Exception", self)
  ELSE LET n == self.ndim
       IN Reshaped([is_TensorValued |-> TRUE, ndim |-> n, rows |-> n, cols |-> n,
                    comp |-> [k \in 1..(n * n) |->
                                TensorEntry(self, (k - 1) \div n, (k - 1) % n)]])

Apply_vec ==
  /\ Len(tOps) < 2 /\ tCur.status = "ok"
  /\ tCur' = vec(tCur.obj)
  /\ tOps' = Append(tOps, "vec")
  /\ UNCHANGED <<tIn, gvars, uvars, avars, gin, gout, cvars, fvars, wvars, svars>>

Apply_tensor ==
  /\ Len(tOps) < 2 /\ tCur.status = "ok"
  /\ tCur' = tensor(tCur.obj)
  /\ tOps' = Append(tOps, "tensor")
  /\ UNCHANGED <<tIn, gvars, uvars, avars, gin, gout, cvars, fvars, wvars, svars>>

IdleTensor == [is_TensorValued |-> FALSE, ndim |-> 2, rows |-> 2, cols |-> 1,
               comp |-> <<0, 0>>]

InitTensorIdle ==
  /\ tIn = IdleTensor
  /\ tCur = Reshaped(IdleTensor)
  /\ tOps = <<>>

\* ---------------------------------------------------------------- C_Matrix
\* the model fields range over 1..MaxField
MaxField == 2

\* exact rationals, kept in lowest terms with a positive denominator
RECURSIVE GCD(_, _)
GCD(a, b) == IF b = 0 THEN a ELSE GCD(b, a % b)
Abs(a) == IF a < 0 THEN -a ELSE a
Q(n, d) ==
  LET g == GCD(Abs(n), Abs(d))
      sg == IF d < 0 THEN -1 ELSE 1
  IN IF g = 0 THEN [n |-> n, d |-> d]
     ELSE [n |-> sg * (n \div g), d |-> sg * (d \div g)]
I(k) == Q(k, 1)
QAdd(a, b) == Q(a.n * b.d + b.n * a.d, a.d * b.d)
QSub(a, b) == Q(a.n * b.d - b.n * a.d, a.d * b.d)
QMul(a, b) == Q(a.n * b.n, a.d * b.d)
QDiv(a, b) == Q(a.n * b.d, a.d * b.n)
QInv(a) == QDiv(I(1), a)

\* the symbol 'C%s%s' % (ii, jj), kept as the pair of its two digits
Symbol(ii, jj) == [sym |-> <<ii, jj>>]
IsSymbol(e) == "sym" \in DOMAIN e

Min(a, b) == IF a < b THEN a ELSE b
Max(a, b) == IF a < b THEN b ELSE a

\* range(1, d) with d = dim*2 + dim-2
VoigtRange(dim) == 1..(dim * 2 + dim - 2 - 1)

\* variant: a symbol wherever one of the two indices is within the first dim
cij_either(dim, i, j) ==
  LET ii == Min(i, j)
      jj == Max(i, j)
  IN IF ii <= dim \/ jj <= dim THEN Symbol(ii, jj) ELSE I(0)

cij(dim, i, j) ==
  LET ii == Min(i, j)
      jj == Max(i, j)
  IN IF ii = jj \/ (ii <= dim /\ jj <= dim) THEN Symbol(ii, jj) ELSE I(0)

matrix_init(dim) ==
  [j \in VoigtRange(dim) |-> [i \in VoigtRange(dim) |-> cij(dim, i, j)]]

\* Matrix.subs(subs): every symbol that is a key is replaced by its value
Subs(matrix, subs) ==
  [j \in DOMAIN matrix |-> [i \in DOMAIN matrix[j] |->
     LET e == matrix[j][i]
     IN IF IsSymbol(e) /\ e.sym \in DOMAIN subs THEN subs[e.sym] ELSE e]]

\* the substitution dictionaries: one value for the normal entries, one for
\* the shear entries, one for the coupling entries
subs3D(normal, shear, coupling) ==
  (<<1, 1>> :> normal) @@ (<<2, 2>> :> normal) @@ (<<3, 3>> :> normal) @@
  (<<4, 4>> :> shear) @@ (<<5, 5>> :> shear) @@ (<<6, 6>> :> shear) @@
  (<<1, 2>> :> coupling) @@ (<<1, 3>> :> coupling) @@ (<<2, 3>> :> coupling)
subs2D(normal, shear, coupling) ==
  (<<1, 1>> :> normal) @@ (<<2, 2>> :> normal) @@ (<<3, 3>> :> shear) @@
  (<<1, 2>> :> coupling)
SubsFor(dim, normal, shear, coupling) ==
  IF dim = 3 THEN subs3D(normal, shear, coupling)
  ELSE subs2D(normal, shear, coupling)

inverse_C_lam(model) ==
  LET lmbda == model.lam
      mu == model.mu
      lm3 == QAdd(QMul(I(3), QMul(lmbda, mu)), QMul(I(2), QMul(mu, mu)))
      lm6 == QAdd(QMul(I(6), QMul(lmbda, mu)), QMul(I(4), QMul(mu, mu)))
  IN Subs(matrix_init(model.dim),
          SubsFor(model.dim, QDiv(QAdd(lmbda, mu), lm3), QInv(mu),
                  QDiv(QSub(I(0), lmbda), lm6)))

generate_Dlam(model) ==
  LET d_lam(i, j) ==
        IF Min(i, j) <= model.dim /\ Max(i, j) <= model.dim THEN I(1) ELSE I(0)
  IN [j \in VoigtRange(model.dim) |->
       [i \in VoigtRange(model.dim) |-> d_lam(i, j)]]

generate_Dmu(model) ==
  LET d_mu(i, j) ==
        IF Min(i, j) = Max(i, j)
        THEN IF Min(i, j) <= model.dim THEN I(2) ELSE I(1)
        ELSE I(0)
  IN [j \in VoigtRange(model.dim) |->
       [i \in VoigtRange(model.dim) |-> d_mu(i, j)]]

C_lambda_mu(model) ==
  LET matriz == matrix_init(model.dim)
      lmbda == model.lam
      mu == model.mu
      M == Subs(matriz, SubsFor(model.dim, QAdd(lmbda, QMul(I(2), mu)), mu, lmbda))
  IN [matrix |-> matriz, M |-> M,
      attrs |-> ("dlam" :> generate_Dlam(model)) @@
                ("dmu" :> generate_Dmu(model)) @@
                ("inv" :> inverse_C_lam(model))]

inverse_C_vp_vs(model) ==
  LET vp == model.vp
      vs == model.vs
      rho == QInv(model.irho)
      vpvp == QMul(vp, vp)
      vsvs == QMul(vs, vs)
      rvv == QMul(QMul(rho, vs), vs)
      num == QSub(vpvp, vsvs)
      d3 == QSub(QMul(I(3), vpvp), QMul(I(4), vsvs))
      d6 == QSub(QMul(I(6), vpvp), QMul(I(8), vsvs))
  IN Subs(matrix_init(model.dim),
          SubsFor(model.dim, QDiv(num, QMul(rvv, d3)), QInv(rvv),
                  QDiv(num, QMul(rvv, d6))))

generate_Dvp(model) ==
  LET d_vp(i, j) ==
        IF Min(i, j) <= model.dim /\ Max(i, j) <= model.dim
        THEN QMul(QMul(I(2), QInv(model.irho)), model.vp)
        ELSE I(0)
  IN [j \in VoigtRange(model.dim) |->
       [i \in VoigtRange(model.dim) |-> d_vp(i, j)]]

\* variant: the coupling entries differentiated as rho*vp*vp - rho*vs*vs
generate_Dvs_coupling2(model) ==
  LET rho == QInv(model.irho)
      vs == model.vs
  IN Subs(matrix_init(model.dim),
          SubsFor(model.dim, I(0), QMul(QMul(I(2), rho), vs),
                  QMul(QMul(I(-2), rho), vs)))

generate_Dvs(model) ==
  LET rho == QInv(model.irho)
      vs == model.vs
  IN Subs(matrix_init(model.dim),
          SubsFor(model.dim, I(0), QMul(QMul(I(2), rho), vs),
                  QMul(QMul(I(-4), rho), vs)))

generate_Drho(model) ==
  LET vp == model.vp
      vs == model.vs
  IN Subs(matrix_init(model.dim),
          SubsFor(model.dim, QMul(vp, vp), QMul(vs, vs),
                  QSub(QMul(vp, vp), QMul(QMul(I(2), vs), vs))))

C_vp_vs_rho(model) ==
  LET matrix == matrix_init(model.dim)
      vp == model.vp
      vs == model.vs
      rho == QInv(model.irho)
      rvpvp == QMul(QMul(rho, vp), vp)
      rvsvs == QMul(QMul(rho, vs), vs)
      M == Subs(matrix, SubsFor(model.dim, rvpvp, rvsvs,
                                QSub(rvpvp, QMul(I(2), rvsvs))))
  IN [matrix |-> matrix, M |-> M,
      attrs |-> ("dvp" :> generate_Dvp(model)) @@
                ("dvs" :> generate_Dvs(model)) @@
                ("drho" :> generate_Drho(model)) @@
                ("inv" :> inverse_C_vp_vs(model))]

generate_DIp(model) ==
  LET d_Is(i, j) ==
        IF Min(i, j) <= model.dim /\ Max(i, j) <= model.dim
        THEN model.vp ELSE I(0)
  IN [j \in VoigtRange(model.dim) |->
       [i \in VoigtRange(model.dim) |-> d_Is(i, j)]]

generate_DIs(model) ==
  LET vs == model.vs
  IN Subs(matrix_init(model.dim),
          SubsFor(model.dim, I(0), vs, QMul(I(-2), vs)))

C_Ip_Is_rho(model) ==
  LET matrix == matrix_init(model.dim)
      vp == model.vp
      vs == model.vs
      Ip == model.Ip
      Is == model.Is
      M == Subs(matrix, SubsFor(model.dim, QMul(Ip, vp), QMul(Is, vs),
                                QSub(QMul(Ip, vp), QMul(QMul(I(2), Is), vs))))
  IN [matrix |-> matrix, M |-> M,
      attrs |-> ("dIs" :> generate_DIs(model)) @@
                ("dIp" :> generate_DIp(model))]

C_matrix_dependency == {"lam-mu", "vp-vs-rho", "Ip-Is-rho"}

C_Matrix(model, parameters) ==
  CASE parameters = "lam-mu" -> C_lambda_mu(model)
    [] parameters = "vp-vs-rho" -> C_vp_vs_rho(model)
    [] parameters = "Ip-Is-rho" -> C_Ip_Is_rho(model)

FieldVals == {I(k) : k \in 1..MaxField}
\* irho = 1/rho for the densities 2..MaxField+1
IrhoVals == {Q(1, k + 1) : k \in 1..MaxField}

Models ==
  [dim : {2, 3}, vp : FieldVals, vs : FieldVals, irho : IrhoVals,
   lam : FieldVals, mu : FieldVals, Ip : FieldVals, Is : FieldVals]

MatrixInputs == [model : Models, parameters : C_matrix_dependency]

NoMatrix == [matrix |-> <<>>, M |-> <<>>, attrs |-> <<>>]
IdleModel == [dim |-> 2, vp |-> I(1), vs |-> I(1), irho |-> I(1),
              lam |-> I(1), mu |-> I(1), Ip |-> I(1), Is |-> I(1)]

Call_C_Matrix ==
  /\ cmOut = NoMatrix
  /\ cmOut' = C_Matrix(cmIn.model, cmIn.parameters)
  /\ UNCHANGED <<cmIn, gvars, uvars, avars, gin, gout, tvars, fvars, wvars, svars>>

InitMatrixIdle ==
  /\ cmIn = [model |-> IdleModel, parameters |-> "lam-mu"]
  /\ cmOut = NoMatrix

\* ----------------------------------------------------------- fields_kwargs
\* fields_kwargs takes up to MaxArgs arguments
MaxArgs == 2

\* What an argument can be: None, a plain field, a multi-component field
\* (it has flat()), or a tuple of such arguments (it is Iterable).
NoField == [kind |-> "None", name |-> "", parts |-> <<>>]
PlainField(name) == [kind |-> "plain", name |-> name, parts |-> <<>>]
MultiField(name, comps) == [kind |-> "multi", name |-> name, parts |-> comps]
TupleOf(items) == [kind |-> "tuple", name |-> "", parts |-> items]

FieldU == PlainField("u")
FieldP == PlainField("p")
FieldV == MultiField("v", <<PlainField("v_x"), PlainField("v_z")>>)
FieldArgs ==
  {NoField, FieldU, FieldP, FieldV,
   TupleOf(<<>>), TupleOf(<<PlainField("ufr"), PlainField("ufi")>>),
   TupleOf(<<NoField, FieldV>>), TupleOf(<<TupleOf(<<FieldU>>), FieldP>>)}

ArgLists == UNION {[1..n -> FieldArgs] : n \in 0..MaxArgs}

\* kw.update(new): the entries of new replace those of kw with the same key
Update(kw, new) == new @@ kw

RECURSIVE DictOf(_)
\* {f.name: f for f in fs}
DictOf(fs) ==
  IF fs = <<>> THEN <<>>
  ELSE Update(DictOf(SubSeq(fs, 1, Len(fs) - 1)),
              fs[Len(fs)].name :> fs[Len(fs)])

\* variant: a multi-component field taken as one field
flat_whole(field) == <<field>>

\* field.flat()
flat(field) == field.parts

RECURSIVE fields_kwargs(_)
fields_kwargs(fargs) ==
  IF fargs = <<>> THEN <<>>
  ELSE LET kw == fields_kwargs(SubSeq(fargs, 1, Len(fargs) - 1))
           field == fargs[Len(fargs)]
       IN IF field.kind = "None" THEN kw
          ELSE IF field.kind = "tuple"
               THEN Update(kw, fields_kwargs(field.parts))
          ELSE IF field.kind = "multi"
               THEN Update(kw, DictOf(flat(field)))
          ELSE Update(kw, field.name :> field)

NoKwargs == [called |-> FALSE, kw |-> <<>>]

Call_fields_kwargs ==
  /\ ~fkOut.called
  /\ fkOut' = [called |-> TRUE, kw |-> fields_kwargs(fkIn)]
  /\ UNCHANGED <<fkIn, gvars, uvars, avars, gin, gout, tvars, cvars, wvars, svars>>

InitFieldsIdle ==
  /\ fkIn = <<>>
  /\ fkOut = NoKwargs

\* -------------------------------------------------------------- weight_fun
\* source coordinates and grid indices range over 0..MaxCoord
MaxCoord == 1

Coords == 0..MaxCoord

\* The weight is a symbolic expression over the grid dimensions; it is kept
\* as the two rationals of sqrt(radius + dh**2) / dh, radius taken at one
\* grid point, or as the constant 1.
ConstantOne == [one |-> TRUE, radius |-> I(0), dh |-> I(1)]
SrcFocus(radius, dh) == [one |-> FALSE, radius |-> radius, dh |-> dh]

RECURSIVE Prod(_)
Prod(sp) == IF sp = <<>> THEN 1 ELSE sp[Len(sp)] * Prod(SubSeq(sp, 1, Len(sp) - 1))

\* p**(1/dim), for the products that are exact powers
Root(p, dim) == CHOOSE r \in 1..p : Prod([i \in 1..dim |-> r]) = p

\* enumerate(w_dim): each dimension of w_dim (by its axis number in the
\* grid) with its position i in w_dim
w_dim_enumerated(dim, full) ==
  IF full THEN [k \in 1..dim |-> [axis |-> k, i |-> k]]
  ELSE <<[axis |-> dim, i |-> 1]>>

RECURSIVE SumSquares(_, _, _)
\* sum((d - isrc[i])**2 for i, d in enumerate(w_dim)), d taken at point pt
SumSquares(pt, isrc, wd) ==
  IF wd = <<>> THEN I(0)
  ELSE LET e == wd[Len(wd)]
           diff == QSub(I(pt[e.axis]), isrc[e.i])
       IN QAdd(SumSquares(pt, isrc, SubSeq(wd, 1, Len(wd) - 1)), QMul(diff, diff))

weight_srcfocus(model, src_coords, delta, full, pt) ==
  LET wd == w_dim_enumerated(model.dim, full)
      isrc == [i \in 1..model.dim |->
                 QAdd(I(model.padsizes[i]), Q(src_coords[i], model.spacing[i]))]
      h == Root(Prod(model.spacing), model.dim)
  IN SrcFocus(SumSquares(pt, isrc, wd), QDiv(delta, I(h)))

weight_fun(w_fun, model, src_coords, pt) ==
  IF w_fun = None THEN ConstantOne
  ELSE weight_srcfocus(model, src_coords, Get(w_fun).delta,
                       Get(w_fun).name = "srcfocus", pt)

WeightModels ==
  UNION {[dim : {n}, spacing : {[i \in 1..n |-> sp] : sp \in {1, 2}},
          padsizes : {[i \in 1..n |-> nbl] : nbl \in {0, 1}}] : n \in {2, 3}}

WFuns ==
  {None} \cup {Some([name |-> nm, delta |-> I(1)]) : nm \in {"srcfocus", "depth"}}

WeightInputs ==
  UNION {[w_fun : WFuns, model : {m}, src_coords : [1..m.dim -> Coords],
          pt : [1..m.dim -> Coords]] : m \in WeightModels}

NoWeight == [called |-> FALSE, w |-> ConstantOne]

Call_weight_fun ==
  /\ ~wOut.called
  /\ wOut' = [called |-> TRUE,
              w |-> weight_fun(wIn.w_fun, wIn.model, wIn.src_coords, wIn.pt)]
  /\ UNCHANGED <<wIn, gvars, uvars, avars, gin, gout, tvars, cvars, fvars, svars>>

InitWeightIdle ==
  /\ wIn = [w_fun |-> None,
            model |-> [dim |-> 2, spacing |-> <<1, 1>>, padsizes |-> <<0, 0>>],
            src_coords |-> <<0, 0>>, pt |-> <<0, 0>>]
  /\ wOut = NoWeight

\* ------------------------------------------- wavefield-as-source wrappers
\* Storage is a heap of blocks: block CallerBlock holds the caller's
\* wavefield, block FreshBlock is what wf_src.data allocates on first access
\* (empty until then).
CallerBlock == "u"
FreshBlock == "wf_src"
Unallocated == <<>>

WavefieldKinds == {"TimeFunction", "array"}
Wavefields ==
  UNION {[kind : WavefieldKinds, data : {CallerBlock}, shape0 : {n},
          values : [1..n -> DataVals]] : n \in NTs}

\* variant: the values are copied whatever u is
build_wf_src_copies(u, space_order, h) ==
  [wf_src |-> [name |-> "wf_src", save |-> u.shape0, space_order |-> space_order,
               data |-> FreshBlock],
   heap |-> [h EXCEPT ![FreshBlock] = [i \in 1..u.shape0 |-> h[u.data][i]]]]

\* wf_src = TimeFunction(..., save=u.shape[0]), then its storage: u's own
\* when u is a TimeFunction, else a fresh block filled from u
build_wf_src(u, space_order, h) ==
  LET wf_src == [name |-> "wf_src", save |-> u.shape0, space_order |-> space_order,
                 data |-> FreshBlock]
  IN IF u.kind = "TimeFunction"
     THEN [wf_src |-> [wf_src EXCEPT !.data = u.data], heap |-> h]
     ELSE [wf_src |-> wf_src,
           heap |-> [h EXCEPT ![wf_src.data] = [i \in 1..wf_src.save |-> h[u.data][i]]]]

NoWfSrc == [fn |-> "none", name |-> "wf_src", save |-> 0, space_order |-> 0,
            data |-> FreshBlock]

\* the wrapper's state once wf_src is built
WfSrcBuilt(fn) ==
  LET r == build_wf_src(wfIn.u, wfIn.space_order, heap)
  IN /\ wfSrc' = [fn |-> fn, name |-> r.wf_src.name, save |-> r.wf_src.save,
                  space_order |-> r.wf_src.space_order, data |-> r.wf_src.data]
     /\ heap' = r.heap

Call_forward_wf_src ==
  /\ wfSrc.fn = "none"
  /\ WfSrcBuilt("forward_wf_src")
  /\ UNCHANGED <<wfIn, gvars, uvars, avars, gin, gout, tvars, cvars, fvars, wvars>>

Call_forward_wf_src_norec ==
  /\ wfSrc.fn = "none"
  /\ WfSrcBuilt("forward_wf_src_norec")
  /\ UNCHANGED <<wfIn, gvars, uvars, avars, gin, gout, tvars, cvars, fvars, wvars>>

Call_adjoint_wf_src ==
  /\ wfSrc.fn = "none"
  /\ WfSrcBuilt("adjoint_wf_src")
  /\ UNCHANGED <<wfIn, gvars, uvars, avars, gin, gout, tvars, cvars, fvars, wvars>>

Call_adjoint_wf_src_norec ==
  /\ wfSrc.fn = "none"
  /\ WfSrcBuilt("adjoint_wf_src_norec")
  /\ UNCHANGED <<wfIn, gvars, uvars, avars, gin, gout, tvars, cvars, fvars, wvars>>

IdleWavefield == [kind |-> "array", data |-> CallerBlock, shape0 |-> 0,
                  values |-> <<>>]

InitWfSrcIdle ==
  /\ wfIn = [u |-> IdleWavefield, space_order |-> DefaultSpaceOrder]
  /\ wfSrc = NoWfSrc
  /\ heap = [b \in {CallerBlock, FreshBlock} |-> Unallocated]

\* ------------------------------------------------------------ idle states

InitNewIdle ==
  /\ InitTensorIdle /\ InitMatrixIdle /\ InitFieldsIdle /\ InitWeightIdle
  /\ InitWfSrcIdle

\* ------------------------------------------------------- specifications
vars == <<gvars, uvars, avars, gin, gout, nvars>>

InitSpecGrad ==
  /\ InitGrad /\ InitDevice /\ platform = "cpu64" /\ InitAlphaIdle /\ InitGeomIdle
  /\ InitNewIdle

\* the gradient strategies
SpecGrad == InitSpecGrad /\ [][NextGrad]_vars

InitSpecDevice ==
  /\ InitGrad /\ InitDevice /\ platform \in Platforms /\ InitAlphaIdle /\ InitGeomIdle
  /\ InitNewIdle

NextDevice ==
  \/ Call_set_device_ids
  \/ Call_base_kwargs

\* the device slot, on each platform
SpecDevice == InitSpecDevice /\ [][NextDevice]_vars

InitSpecAlpha ==
  /\ InitGrad /\ InitDevice /\ platform = "cpu64" /\ InitGeomIdle
  /\ InitNewIdle
  /\ alphaIn \in AlphaInputs /\ alphaOut = NotCalled

NextAlpha == Call_compute_optalpha

\* compute_optalpha applied to each input
SpecAlpha == InitSpecAlpha /\ [][NextAlpha]_vars

InitSpecGeom ==
  /\ InitGrad /\ InitDevice /\ platform = "cpu64" /\ InitAlphaIdle
  /\ InitNewIdle
  /\ gin \in GeomInputs /\ gout = NoCall

NextGeom ==
  \/ Call_src_rec
  \/ Call_geom_expr

\* src_rec and geom_expr applied to each input
SpecGeom == InitSpecGeom /\ [][NextGeom]_vars

InitOldIdle ==
  /\ InitGrad /\ InitDevice /\ platform = "cpu64" /\ InitAlphaIdle /\ InitGeomIdle

InitSpecTensor ==
  /\ InitOldIdle
  /\ InitMatrixIdle /\ InitFieldsIdle /\ InitWeightIdle /\ InitWfSrcIdle
  /\ tIn \in TensorInputs /\ tCur = Reshaped(tIn) /\ tOps = <<>>

NextTensor ==
  \/ Apply_vec
  \/ Apply_tensor

\* vec and tensor applied, up to twice in a row, to each object
SpecTensor == InitSpecTensor /\ [][NextTensor]_vars

InitSpecMatrix ==
  /\ InitOldIdle
  /\ InitTensorIdle /\ InitFieldsIdle /\ InitWeightIdle /\ InitWfSrcIdle
  /\ cmIn \in MatrixInputs /\ cmOut = NoMatrix

NextMatrix == Call_C_Matrix

\* C_Matrix called once on each model and parameterization
SpecMatrix == InitSpecMatrix /\ [][NextMatrix]_vars

InitSpecFields ==
  /\ InitOldIdle
  /\ InitTensorIdle /\ InitMatrixIdle /\ InitWeightIdle /\ InitWfSrcIdle
  /\ fkIn \in ArgLists /\ fkOut = NoKwargs

NextFields == Call_fields_kwargs

\* fields_kwargs called once on each argument list
SpecFields == InitSpecFields /\ [][NextFields]_vars

InitSpecWeight ==
  /\ InitOldIdle
  /\ InitTensorIdle /\ InitMatrixIdle /\ InitFieldsIdle /\ InitWfSrcIdle
  /\ wIn \in WeightInputs /\ wOut = NoWeight

NextWeight == Call_weight_fun

\* weight_fun called once on each descriptor, model, source and grid point
SpecWeight == InitSpecWeight /\ [][NextWeight]_vars

InitSpecWfSrc ==
  /\ InitOldIdle
  /\ InitTensorIdle /\ InitMatrixIdle /\ InitFieldsIdle /\ InitWeightIdle
  /\ wfIn \in [u : Wavefields, space_order : SpaceOrders]
  /\ wfSrc = NoWfSrc
  /\ heap = (CallerBlock :> wfIn.u.values) @@ (FreshBlock :> Unallocated)

NextWfSrc ==
  \/ Call_forward_wf_src
  \/ Call_forward_wf_src_norec
  \/ Call_adjoint_wf_src
  \/ Call_adjoint_wf_src_norec

\* each wavefield-as-source wrapper called once on each wavefield
SpecWfSrc == InitSpecWfSrc /\ [][NextWfSrc]_vars

\* --------------------------------------------------------------- claims
Expected_strategy ==
  IF args.checkpointing THEN "checkpointing"
  ELSE IF args.nfreq > 0 THEN "freq"
  ELSE "standard"

\* C1: a call through J_adjoint runs exactly one strategy: checkpointing if
\* the flag is set (even with a non-empty freq_list), else freq if freq_list
\* is non-empty, else standard.
C1_Dispatch == (viaJ /\ pc # "idle") => ran = <<Expected_strategy>>

C1_Witness ==
  /\ viaJ /\ pc = "done"
  /\ args.checkpointing /\ args.nfreq > 0
  /\ ran = <<"checkpointing">>

Expected_residual ==
  IF args.is_residual THEN args.recin0 ELSE Sub(args.sim, args.recin0)

\* C2: in each of the three strategies the residual handed to the
\* adjoint/gradient computation is recin itself when is_residual is true and
\* the simulated data minus recin when it is false.
C2_SameResidual == pc = "done" => residual = Some(Expected_residual)

\* C3: J_adjoint_standard and J_adjoint_freq assign simulated minus observed
\* to recin exactly when is_residual is false and leave it alone otherwise;
\* a call through J_adjoint never modifies recin.
C3_RecinFrame ==
  /\ (pc = "done" /\ ran[1] \in {"standard", "freq"}) =>
        /\ recinWritten <=> ~args.is_residual
        /\ recin = Expected_residual
  /\ viaJ => (~recinWritten /\ recin = args.recin0)

C3_Witness ==
  /\ pc = "done" /\ ran = <<"standard">>
  /\ ~args.is_residual /\ recinWritten
  /\ recin = Sub(args.sim, args.recin0) /\ recin # args.recin0

Rank(e) ==
  CASE e \in {"fwd", "fwd_end"} -> 1
    [] e = "res" -> 2
    [] e \in {"rev", "rev_end"} -> 3

\* C4: in J_adjoint_checkpointing the forward sweep completes, then the
\* residual is written into the receiver buffer, then the reverse sweep
\* runs: the phases never overlap, the reverse sweep never starts before the
\* residual is written and no forward step follows it.
C4_PhaseOrder ==
  LET ev == cp.events IN
  /\ \A i, j \in DOMAIN ev : i < j => Rank(ev[i]) <= Rank(ev[j])
  /\ \A j \in DOMAIN ev :
       Rank(ev[j]) = 3 => \E i \in 1..(j - 1) : ev[i] = "res"
  /\ \A j \in DOMAIN ev :
       ev[j] = "res" => \E i \in 1..(j - 1) : ev[i] = "fwd_end"
  /\ \A j \in DOMAIN ev :
       ev[j] = "fwd_end" => Cardinality({i \in 1..j : ev[i] = "fwd"}) = cp.nsteps
  /\ pc = "done" /\ ran = <<"checkpointing">> =>
       /\ ev[Len(ev)] = "rev_end"
       /\ Cardinality({i \in DOMAIN ev : ev[i] = "res"}) = 1

C4_Witness ==
  /\ pc = "done" /\ ran = <<"checkpointing">>
  /\ cp.tfwd = cp.nsteps /\ cp.trev = cp.nsteps /\ cp.nsteps > 1
  /\ cp.events[Len(cp.events)] = "rev_end"

\* C5: with a memory budget the checkpoint store is sized as
\* floor(maxmem_bytes / per_step_bytes), per_step_bytes being the saved-field
\* element count times the element byte width; without one the explicit
\* n_checkpoints is used unchanged.
C5_CheckpointCount ==
  (pc # "idle" /\ ran = <<"checkpointing">>) =>
    IF args.maxmem # None
    THEN LET bytes == Get(args.maxmem) * BytesPerMB
             per_step == args.cp_size * args.itemsize
             n == Get(cp.n_checkpoints)
         IN /\ cp.n_checkpoints # None
            /\ n * per_step <= bytes
            /\ bytes < (n + 1) * per_step
    ELSE cp.n_checkpoints = args.n_checkpoints

C5_Witness ==
  /\ pc = "done" /\ ran = <<"checkpointing">>
  /\ args.maxmem = Some(2) /\ args.itemsize = 4 /\ args.n_checkpoints = Some(5)
  /\ cp.n_checkpoints = Some(3)

\* C6: compute_optalpha returns 1 when comp_alpha is false; otherwise 0 if
\* norm_r <= epsilon or norm_Fty <= 0, else norm_r * (norm_r - epsilon) /
\* norm_Fty (1.5 for 5, 10, 2); it never raises.
C6_OptAlpha ==
  alphaOut # NotCalled =>
    LET a == alphaIn
        r == alphaOut
    IN /\ ~r.raised
       /\ ~a.comp_alpha => (r.num = 1 /\ r.den = 1)
       /\ (a.comp_alpha /\ (a.norm_r <= a.epsilon \/ a.norm_Fty <= 0)) =>
            (r.num = 0 /\ r.den # 0)
       /\ (a.comp_alpha /\ a.norm_r > a.epsilon /\ a.norm_Fty > 0) =>
            /\ r.den # 0
            /\ r.num * a.norm_Fty = a.norm_r * (a.norm_r - a.epsilon) * r.den
       /\ (a.comp_alpha /\ a.norm_r = 5 /\ a.norm_Fty = 10 /\ a.epsilon = 2) =>
            2 * r.num = 3 * r.den

C6_Witness ==
  /\ alphaOut # NotCalled /\ ~alphaOut.raised
  /\ alphaIn = [norm_r |-> 5, norm_Fty |-> 10, epsilon |-> 2, comp_alpha |-> TRUE]
  /\ 2 * alphaOut.num = 3 * alphaOut.den

\* C7: base_kwargs(dt) returns the time step plus, on the accelerator-GPU
\* platform only, the id given to the most recent set_device_ids call (-1 if
\* none); base_kwargs never changes the device slot.
C7_DeviceKwargs ==
  /\ DEVICE = lastSet
  /\ lastCall = "base_kwargs" =>
       \E dt \in 1..MaxDt :
         kwargs = IF platform = "nvidiaX"
                  THEN {<<"dt", dt>>, <<"deviceid", lastSet>>}
                  ELSE {<<"dt", dt>>}

C7_Witness ==
  /\ platform = "nvidiaX" /\ lastCall = "base_kwargs"
  /\ lastSet = 2 /\ <<"deviceid", 2>> \in kwargs

Kinds(eqs) == [i \in DOMAIN eqs |-> eqs[i].kind]
Repeat(n, x) == [i \in 1..n |-> x]
GeomReturned == gout.fn = "geom_expr" /\ gout.status = "ok"

\* C8 as stated: for every medium, geom_expr returns one injection if only
\* src_coords is given, one interpolation if only rec_coords is given, and
\* the injection followed by the interpolation if both are.
C8_OneEach ==
  GeomReturned =>
    Kinds(Get(gout.eqs)) =
      (IF gin.src_coords # None THEN <<"inject">> ELSE <<>>)
      \o (IF gin.rec_coords # None THEN <<"interp">> ELSE <<>>)

\* C8 amended: on acoustic and TTI media geom_expr returns one injection for
\* src_coords and one interpolation for rec_coords; on elastic media it
\* returns one injection per diagonal stress entry (ndim) and ndim + 1
\* interpolations; injections always come before interpolations.
C8_PerMedium ==
  GeomReturned =>
    LET ninj == IF is_elastic(gin.medium) THEN gin.dim ELSE 1
        nint == IF is_elastic(gin.medium) THEN gin.dim + 1 ELSE 1
    IN Kinds(Get(gout.eqs)) =
         (IF gin.src_coords # None THEN Repeat(ninj, "inject") ELSE <<>>)
         \o (IF gin.rec_coords # None THEN Repeat(nint, "interp") ELSE <<>>)

C8_Witness ==
  /\ GeomReturned
  /\ is_elastic(gin.medium) /\ gin.dim = 3
  /\ gin.src_coords # None /\ gin.rec_coords # None
  /\ Len(Get(gout.eqs)) = 7

RecvMissing ==
  is_elastic(gin.medium) /\ gin.rec_coords # None /\ gin.recv_coords = None

\* C9: geom_expr on an elastic model with rec_coords given and recv_coords
\* absent raises and returns no equation list; with recv_coords given, or
\* rec_coords absent, it does not raise that error.
C9_RecvRequired ==
  gout.fn = "geom_expr" =>
    /\ RecvMissing => (gout.status # "ok" /\ gout.eqs = None)
    /\ (RecvMissing /\ src_rec(gin.medium, gin.src_coords, gin.rec_coords,
                               gin.wavelet, gin.nt).status = "ok")
         => gout.status = "Exception"
    /\ ~RecvMissing => gout.status # "Exception"

C9_Witness ==
  /\ gout.fn = "geom_expr" /\ gout.status = "Exception"
  /\ RecvMissing /\ gin.src_coords # None /\ gout.eqs = None

SourceGiven == gout.status = "ok" /\ gin.wavelet.kind = "PointSource"

\* C10 as stated: whenever the wavelet is already a PointSource, the source
\* src_rec returns is that same object, unmodified.
C10_AlwaysReused == SourceGiven => gout.src = Some(gin.wavelet)

\* C10 amended: whenever the wavelet is already a PointSource and src_coords
\* is given, the source src_rec returns is that same object, unmodified;
\* with src_coords absent src_rec returns no source.
C10_ReusedWithCoords ==
  SourceGiven =>
    IF gin.src_coords # None THEN gout.src = Some(gin.wavelet)
    ELSE gout.src = None

C10_Witness ==
  /\ gout.fn = "src_rec" /\ SourceGiven
  /\ gin.src_coords # None /\ gin.nt = Some(1) /\ gin.wavelet.ntime = Some(2)
  /\ gout.src = Some(gin.wavelet)

IsInject(e) == e.kind = "inject"
Fields(eqs) == [i \in DOMAIN eqs |-> eqs[i].field]

\* C19: when a source exists, geom_expr injects into the forward time slice
\* if fw is true and into the backward one if fw is false on acoustic and TTI
\* media; on elastic media fw has no effect and one injection goes into the
\* forward time slice of every diagonal entry of the stress tensor.
C19_InjectionSlice ==
  (GeomReturned /\ gout.src # None) =>
    LET injected == Fields(SelectSeq(Get(gout.eqs), IsInject)) IN
    IF is_elastic(gin.medium)
    THEN injected = IF gin.dim = 3
                    THEN <<"tau_xx.forward", "tau_yy.forward", "tau_zz.forward">>
                    ELSE <<"tau_xx.forward", "tau_zz.forward">>
    ELSE injected = <<IF gin.fw THEN "u.forward" ELSE "u.backward">>

C19_Witness ==
  /\ GeomReturned /\ gout.src # None
  /\ gin.medium = "tti" /\ ~gin.fw
  /\ Get(gout.eqs)[1].field = "u.backward"

\* C20: J_adjoint passes the caller's space_order unchanged to the strategy
\* it selects.
C20_SpaceOrderPassed == (viaJ /\ pc # "idle") => so_used = args.space_order

IsVoigt(o) == o.is_TensorValued /\ o.cols = 1 /\ o.rows = 3 * o.ndim - 3
IsSquare(o) == o.is_TensorValued /\ o.rows = o.cols /\ o.rows = o.ndim
IsSymmetric(o) ==
  \A i, j \in 0..(o.ndim - 1) : At2(o, i, j) = At2(o, j, i)

\* C12: vec(tensor(v)) = v for every Voigt vector v and tensor(vec(M)) = M
\* for every symmetric square tensor M, with the order (0,0),(1,1),(2,2),
\* (1,2),(0,2),(0,1) in 3-D and (0,0),(1,1),(0,1) in 2-D; vec of a Voigt
\* vector and tensor of a square tensor fail.
C12_ReshapeRoundTrip ==
  /\ (tOps = <<"tensor", "vec">> /\ IsVoigt(tIn)) => tCur = Reshaped(tIn)
  /\ (tOps = <<"vec", "tensor">> /\ IsSquare(tIn) /\ IsSymmetric(tIn)) =>
       tCur = Reshaped(tIn)
  /\ (tOps = <<"vec">> /\ IsSquare(tIn)) =>
       /\ tCur.status = "ok"
       /\ tCur.obj.comp =
            IF tIn.ndim = 3
            THEN <<At2(tIn, 0, 0), At2(tIn, 1, 1), At2(tIn, 2, 2),
                   At2(tIn, 1, 2), At2(tIn, 0, 2), At2(tIn, 0, 1)>>
            ELSE <<At2(tIn, 0, 0), At2(tIn, 1, 1), At2(tIn, 0, 1)>>
  /\ (tOps = <<"vec">> /\ IsVoigt(tIn)) => tCur.status # "ok"
  /\ (tOps = <<"tensor">> /\ IsSquare(tIn)) => tCur.status # "ok"

C12_Witness ==
  /\ tOps = <<"vec", "tensor">> /\ IsSquare(tIn) /\ IsSymmetric(tIn)
  /\ tIn.ndim = 3 /\ At2(tIn, 1, 2) # At2(tIn, 0, 1)
  /\ tCur = Reshaped(tIn)

cmCalled == cmOut # NoMatrix

RECURSIVE RowDot(_, _, _, _, _)
\* sum over k = 1..n of A[i][k] * B[k][j]
RowDot(A, B, i, j, n) ==
  IF n = 0 THEN I(0)
  ELSE QAdd(RowDot(A, B, i, j, n - 1), QMul(A[i][n], B[n][j]))

\* C11: for lam-mu and vp-vs-rho, in 2-D and 3-D, the attached inverse times
\* the stiffness matrix is the identity matrix.
C11_InverseIsIdentity ==
  (cmCalled /\ "inv" \in DOMAIN cmOut.attrs) =>
    \A i, j \in DOMAIN cmOut.M :
      RowDot(cmOut.attrs["inv"], cmOut.M, i, j, Len(cmOut.M)) =
        IF i = j THEN I(1) ELSE I(0)

\* C13: before substitution the entry (i, j) of the Voigt matrix is an
\* independent symbol exactly when at least one of i, j lies within the
\* first ndim rows/columns and is 0 otherwise; the matrix is symmetric.
C13_EitherIndex ==
  cmCalled =>
    LET m == cmOut.matrix
        n == cmIn.model.dim
    IN \A i, j \in DOMAIN m :
         /\ IsSymbol(m[j][i]) <=> (i <= n \/ j <= n)
         /\ ~IsSymbol(m[j][i]) => m[j][i] = I(0)
         /\ m[j][i] = m[i][j]

\* C13, as the code has it: the entry (i, j) is the symbol C<min><max>
\* exactly when i = j or both i and j lie within the first ndim
\* rows/columns, and is 0 otherwise; the matrix has 3*ndim - 3 rows and
\* columns and is symmetric.
C13_DiagonalOrBlock ==
  cmCalled =>
    LET m == cmOut.matrix
        n == cmIn.model.dim
    IN /\ DOMAIN m = 1..(3 * n - 3)
       /\ \A i, j \in DOMAIN m :
            /\ m[j][i] = IF i = j \/ (i <= n /\ j <= n)
                         THEN Symbol(Min(i, j), Max(i, j)) ELSE I(0)
            /\ m[j][i] = m[i][j]

C13_Witness ==
  /\ cmCalled /\ cmIn.model.dim = 3
  /\ cmOut.matrix[1][4] = I(0)
  /\ cmOut.matrix[4][4] = Symbol(4, 4)
  /\ cmOut.matrix[2][1] = Symbol(1, 2)

\* the attributes the claim expects for each parameterization
Attached(parameters) ==
  CASE parameters = "lam-mu" -> {"dlam", "dmu", "inv"}
    [] parameters = "vp-vs-rho" -> {"dvp", "dvs", "drho", "inv"}
    [] parameters = "Ip-Is-rho" -> {"dIp", "dIs", "inv"}

\* C14: for each of the three parameterizations the returned matrix carries
\* a derivative matrix for each defining parameter and an analytic inverse.
C14_AllAttached ==
  cmCalled => Attached(cmIn.parameters) \subseteq DOMAIN cmOut.attrs

\* the parameter each derivative attribute differentiates by
DerivOf ==
  ("dlam" :> "lam") @@ ("dmu" :> "mu") @@ ("dvp" :> "vp") @@ ("dvs" :> "vs") @@
  ("drho" :> "rho") @@ ("dIp" :> "Ip") @@ ("dIs" :> "Is")

\* the model with one parameter moved by k, every other field held fixed
Moved(model, param, k) ==
  IF param = "rho"
  THEN [model EXCEPT !.irho = QInv(QAdd(QInv(@), I(k)))]
  ELSE [model EXCEPT ![param] = QAdd(@, I(k))]

\* C15: every attached derivative matrix is, entry by entry, the partial
\* derivative of the returned stiffness matrix by its parameter, in 2-D and
\* 3-D. The entries are polynomials of degree at most 2 in each parameter,
\* for which the central difference is the derivative.
C15_Derivatives ==
  cmCalled =>
    \A a \in DOMAIN cmOut.attrs \cap DOMAIN DerivOf :
      LET up == C_Matrix(Moved(cmIn.model, DerivOf[a], 1), cmIn.parameters).M
          down == C_Matrix(Moved(cmIn.model, DerivOf[a], -1), cmIn.parameters).M
      IN \A i, j \in DOMAIN cmOut.M :
           QMul(I(2), cmOut.attrs[a][j][i]) = QSub(up[j][i], down[j][i])

C15_Witness ==
  /\ cmCalled /\ cmIn.parameters = "vp-vs-rho" /\ cmIn.model.dim = 3
  /\ cmIn.model.vs = I(2) /\ cmIn.model.irho = Q(1, 3)
  /\ cmOut.attrs["dvs"][1][2] = I(-24)
  /\ cmOut.attrs["dvs"][4][4] = I(12)
  /\ cmOut.attrs["drho"][1][1] = QMul(cmIn.model.vp, cmIn.model.vp)

RECURSIVE Leaves(_)
\* the present fields of an argument list, in order: a tuple by its items,
\* a multi-component field by its components, a plain field by itself
Leaves(fargs) ==
  IF fargs = <<>> THEN <<>>
  ELSE LET f == fargs[1]
           rest == Leaves(SubSeq(fargs, 2, Len(fargs)))
       IN CASE f.kind = "None" -> rest
            [] f.kind = "tuple" -> Leaves(f.parts) \o rest
            [] f.kind = "multi" -> f.parts \o rest
            [] f.kind = "plain" -> <<f>> \o rest

\* C16: the mapping has exactly one entry per flat component of the present
\* arguments, keyed by that component's own name and holding that component;
\* absent arguments add nothing; with no present argument it is empty.
C16_FieldsKwargs ==
  fkOut.called =>
    LET leaves == Leaves(fkIn) IN
    /\ DOMAIN fkOut.kw = {leaves[k].name : k \in DOMAIN leaves}
    /\ \A k \in DOMAIN leaves : fkOut.kw[leaves[k].name] = leaves[k]
    /\ (\A k \in DOMAIN fkIn : fkIn[k].kind = "None") => fkOut.kw = <<>>

C16_Witness ==
  /\ fkOut.called
  /\ fkIn = <<FieldV, TupleOf(<<TupleOf(<<FieldU>>), FieldP>>)>>
  /\ DOMAIN fkOut.kw = {"v_x", "v_z", "u", "p"}
  /\ fkOut.kw["v_z"] = PlainField("v_z")

\* the source's grid index along axis i: pad offset plus coordinate over
\* spacing
SourceIndex(i) ==
  QAdd(I(wIn.model.padsizes[i]), Q(wIn.src_coords[i], wIn.model.spacing[i]))
SquaredGap(i) ==
  LET diff == QSub(I(wIn.pt[i]), SourceIndex(i)) IN QMul(diff, diff)
RECURSIVE SquaredDistance(_)
SquaredDistance(n) ==
  IF n = 0 THEN I(0) ELSE QAdd(SquaredDistance(n - 1), SquaredGap(n))

\* C17: weight_fun returns 1 without a descriptor; with name "srcfocus" the
\* distance in the weight runs over all spatial axes; with any other name it
\* is the distance between the grid point's depth index and the source's
\* depth index.
C17_DepthDistance ==
  wOut.called =>
    /\ wIn.w_fun = None => wOut.w = ConstantOne
    /\ wIn.w_fun # None =>
         /\ ~wOut.w.one
         /\ wOut.w.dh = QDiv(Get(wIn.w_fun).delta, I(wIn.model.spacing[1]))
         /\ wOut.w.radius =
              IF Get(wIn.w_fun).name = "srcfocus"
              THEN SquaredDistance(wIn.model.dim)
              ELSE SquaredGap(wIn.model.dim)

\* C18: in each of the four wrappers, a raw array gives wf_src a freshly
\* allocated block holding a copy of the values, the caller's block left as
\* it was; a TimeFunction gives wf_src the caller's block itself and nothing
\* is allocated or copied.
C18_WfSrcStorage ==
  wfSrc.fn # "none" =>
    /\ heap[wfIn.u.data] = wfIn.u.values
    /\ wfSrc.save = wfIn.u.shape0
    /\ IF wfIn.u.kind = "array"
       THEN /\ wfSrc.data # wfIn.u.data
            /\ heap[wfSrc.data] = wfIn.u.values
       ELSE /\ wfSrc.data = wfIn.u.data
            /\ heap[FreshBlock] = Unallocated

C18_Witness ==
  /\ wfSrc.fn = "adjoint_wf_src_norec"
  /\ wfIn.u.kind = "TimeFunction"
  /\ wfSrc.data = CallerBlock
  /\ \E i \in DOMAIN wfIn.u.values : heap[wfSrc.data][i] # 0

NtSupplied == gin.nt # None /\ Get(gin.nt) # 0
ZeroFilled(kind, name, coords) ==
  [kind |-> kind, id |-> "new", name |-> name, ntime |-> gin.nt,
   coordinates |-> coords, data |-> [i \in 1..Get(gin.nt) |-> 0]]

\* C21: src_rec settles the sample count first. With nt supplied and
\* non-zero and no wavelet the call succeeds, returning a zero-filled source
\* of length nt when src_coords is given and a receiver of length nt when
\* rec_coords is given; every receiver it returns has length nt whatever the
\* wavelet's length. With nt and wavelet both absent it fails and returns
\* neither, whatever coordinates were given, and so does geom_expr.
C21_SampleCountFirst ==
  /\ (gout.fn = "src_rec" /\ NtSupplied /\ gin.wavelet.kind = "None") =>
       /\ gout.status = "ok"
       /\ gout.src = IF gin.src_coords = None THEN None
                     ELSE Some(ZeroFilled("PointSource", "src" \o namef(gin.medium),
                                          gin.src_coords))
       /\ gout.rcv = IF gin.rec_coords = None THEN None
                     ELSE Some(ZeroFilled("Receiver", "rcv" \o namef(gin.medium),
                                          gin.rec_coords))
  /\ (gout.fn = "src_rec" /\ NtSupplied /\ gout.status = "ok" /\ gout.rcv # None) =>
       Get(gout.rcv).ntime = gin.nt
  /\ (gout.fn # "none" /\ gin.nt = None /\ gin.wavelet.kind = "None") =>
       /\ gout.status = "AttributeError"
       /\ gout.src = None /\ gout.rcv = None /\ gout.eqs = None

C21_Witness ==
  /\ gout.fn = "src_rec" /\ gin.nt = Some(2) /\ gin.wavelet.kind = "None"
  /\ gin.src_coords # None /\ gin.rec_coords # None
  /\ gout.status = "ok"
  /\ Get(gout.src).data = <<0, 0>>
  /\ Get(gout.rcv).ntime = Some(2)

====
